---- MODULE Spec2Model ----
(***************************************************************************)
(* A model of the llama client:                                            *)
(*   - daemon.Start   (src/daemon/server.go): the singleton bootstrap of   *)
(*     the daemon on its unix socket, the liveness probe, the recovery of  *)
(*     a stale socket file, serving and shutdown;                          *)
(*   - InvokeCommand.Execute, prepareArgs, parseArg, fetchOutputs and      *)
(*     fileList (src/cmd/llama/invoke.go): the argument grammar, the -f    *)
(*     attachments and the orchestration of one remote invocation.         *)
(* Spec is the daemon; SpecArgs is prepareArgs over token lists; SpecInvoke*)
(* is one Execute call; SpecFiles is the -f flag: fileList.Set on each     *)
(* value, then fileList.Prepare.                                           *)
(***************************************************************************)
EXTENDS Integers, Sequences, FiniteSets, TLC

\* ------------------------------------------------------------------ bounds
\* Number of processes that may call daemon.Start on the same socket path.
NumProcs == 2
\* Requests a serving daemon may have in flight at once.
MaxInflight == 1
\* Longest token list given to prepareArgs.
MaxArgs == 3
\* Longest token list given to one Execute call.
MaxCmdArgs == 2
\* Most attachments (-f) of one Execute call.
MaxFiles == 1
\* Largest exit status of the remote command.
MaxExit == 2
\* Most -f flags on one command line.
MaxFlags == 2

VARIABLES
    \* ---- daemon (server.go) ----
    sockFile,     \* what the socket path names: NoFile, Stale, Live or the process bound to it
    pc,           \* pc[p]: where process p is in Start
    ret,          \* ret[p]: what Start returned ("none" while it runs)
    cancelled,    \* cancelled[p]: ctx.Done() of p's context is closed
    lst,          \* lst[p]: p's listener: "none", "open", "closed"
    srv,          \* srv[p]: the goroutine of line 58: "none", "pending", "accepting", "done"
    inflight,     \* inflight[p]: handler invocations running in p's http.Server
    conn,         \* conn[p]: the daemon p's Dial connected to (NoFile: none)
    \* history of each Start call, for the properties
    firstBind,    \* outcome of line 32: "none", "ok", "inuse", "other"
    dialRes,      \* outcome of line 36: "none", "ok", "err"
    pingRes,      \* outcome of line 38: "none", "ok", "err"
    rmTried,      \* line 46 was executed
    rmVictim,     \* what line 46 removed: NoRemoval, Stale or a process
    binds,        \* number of net.Listen calls made
    envFault,     \* an I/O failure unrelated to the protocol was injected
    initFile,     \* what the socket path named when the run started
    \* ---- invoke (invoke.go) ----
    ipc,          \* where Execute / prepareArgs is
    args,         \* flag.Args()[1:]: the argument tokens, each a sequence of characters
    ai,           \* prepareArgs: number of tokens parsed so far (the loop index)
    out,          \* prepareArgs: out, a slot per token (Null until it is assigned)
    outputs,      \* the OutputMap: output name -> local destination path
    calls,        \* history: one record per parseArg call
    perr,         \* the error prepareArgs returned ("none": none)
    stdinFlag,    \* c.stdin
    logsFlag,     \* c.logs
    files,        \* c.files.files: the attachments
    specStdin,    \* spec.Stdin is set
    specFiles,    \* spec.Files
    invoked,      \* number of llama.Invoke calls made
    resp,         \* the response of llama.Invoke (NoResp: none)
    pending,      \* fetchOutputs: the outputs of the response not handled yet
    written,      \* the output files written: (path, output name)
    events,       \* history: what Execute did, in order
    prepFailed,   \* the preparation step that failed ("none": none)
    result,       \* the status Execute ended with (NoResult: running)
    \* ---- the -f flag (invoke.go, fileList) ----
    fvals,        \* the values of the -f flags of the command line, in order
    fi,           \* number of those values given to fileList.Set so far
    setErr,       \* the error fileList.Set returned (NoError: none)
    prepRet       \* what fileList.Prepare returned (NotCalled: not called)

dvars == <<sockFile, pc, ret, cancelled, lst, srv, inflight, conn,
           firstBind, dialRes, pingRes, rmTried, rmVictim, binds, envFault, initFile>>

avars == <<ipc, args, ai, out, outputs, calls, perr>>

xvars == <<stdinFlag, logsFlag, files, specStdin, specFiles, invoked, resp, pending,
           written, events, prepFailed, result>>

fvars == <<fvals, fi, setErr, prepRet>>

vars == <<dvars, avars, xvars, fvars>>

\* The processes calling Start.
Procs == 1..NumProcs
\* What the socket path names: nothing; a socket file with no process behind it;
\* the socket of a daemon that was started earlier, outside Procs, and is serving.
NoFile == 0
Stale == -1
Live == -3
NoRemoval == -2
ErrAlreadyRunning == "ErrAlreadyRunning"

\* ------------------------------------------------------------ daemon.Start

\* Start has returned `r` in process p.
Return(p, r) ==
    /\ pc' = [pc EXCEPT ![p] = "returned"]
    /\ ret' = [ret EXCEPT ![p] = r]

\* line 29: os.MkdirAll(path.Dir(sockPath)); its error is returned.
MkdirAll(p) ==
    /\ pc[p] = "idle"
    /\ \E ok \in BOOLEAN :
         IF ok
         THEN /\ pc' = [pc EXCEPT ![p] = "listen"]
              /\ UNCHANGED <<ret, envFault>>
         ELSE /\ Return(p, "mkdirErr")
              /\ envFault' = [envFault EXCEPT ![p] = TRUE]
    /\ UNCHANGED <<sockFile, cancelled, lst, srv, inflight, conn, firstBind,
                   dialRes, pingRes, rmTried, rmVictim, binds, initFile, avars, xvars, fvars>>

\* net.Listen("unix", sockPath): bind(2) fails with EADDRINUSE whenever the path
\* exists, whatever is behind it; otherwise it binds and listens, or fails for
\* another reason (permissions, ...). One step, as the one call of the source.
ListenOutcomes(file) ==
    IF file # NoFile THEN {"inuse", "other"} ELSE {"ok", "other"}

\* A Start that probes the endpoint after any failure of the first bind.
AfterListenProbesAll(o) == IF o = "ok" THEN "serve" ELSE "dial"

\* lines 33 and 51-53: where Start goes after the first bind: bound, to serving;
\* in use, to the probe; any other error, to the return of line 52.
AfterListen(o) ==
    CASE o = "ok" -> "serve"
      [] o = "inuse" -> "dial"
      [] OTHER -> "returned"

\* lines 32-33 and 51-53: the first bind. In use: go on to the probe; another
\* error: return it; bound: serve.
Listen(p) ==
    /\ pc[p] = "listen"
    /\ \E o \in ListenOutcomes(sockFile) :
         /\ firstBind' = [firstBind EXCEPT ![p] = o]
         /\ binds' = [binds EXCEPT ![p] = @ + 1]
         /\ envFault' = [envFault EXCEPT ![p] = (o = "other")]
         /\ IF o = "ok"
            THEN /\ sockFile' = p
                 /\ lst' = [lst EXCEPT ![p] = "open"]
            ELSE UNCHANGED <<sockFile, lst>>
         /\ IF AfterListen(o) = "returned"
            THEN Return(p, "bindErr")
            ELSE /\ pc' = [pc EXCEPT ![p] = AfterListen(o)]
                 /\ UNCHANGED ret
    /\ UNCHANGED <<cancelled, srv, inflight, conn, dialRes, pingRes,
                   rmTried, rmVictim, initFile, avars, xvars, fvars>>

\* rpc.DialHTTP on the socket path (lines 66-72): connect(2) and the HTTP CONNECT
\* handshake. No file, or nothing listening behind it: an error. A listener whose
\* server is accepting: a connection to that daemon. A listener whose Serve
\* goroutine has not run yet: the handshake waits (no outcome yet).
DialOutcome(file) ==
    CASE file = Live -> "ok"
      [] file \in Procs /\ lst[file] = "open" ->
           IF srv[file] = "accepting" THEN "ok" ELSE "wait"
      [] OTHER -> "err"

\* A Start that treats every in-use endpoint as stale, without looking at the probe.
AfterDialAlwaysStale(ok) == "remove"

\* A Start that gives up, without removing anything, when Dial fails.
AfterDialErrReturns(ok) == IF ok THEN "ping" ELSE "returned"

\* line 37: what Start does with Dial's result.
AfterDial(ok) == IF ok THEN "ping" ELSE "remove"

\* line 36: client, err = Dial(ctx).
Dial(p) ==
    /\ pc[p] = "dial"
    /\ DialOutcome(sockFile) # "wait"
    /\ LET ok == DialOutcome(sockFile) = "ok" IN
         /\ dialRes' = [dialRes EXCEPT ![p] = IF ok THEN "ok" ELSE "err"]
         /\ conn' = [conn EXCEPT ![p] = IF ok THEN sockFile ELSE NoFile]
         /\ pc' = [pc EXCEPT ![p] = AfterDial(ok)]
    /\ UNCHANGED <<sockFile, ret, cancelled, lst, srv, inflight, firstBind,
                   pingRes, rmTried, rmVictim, binds, envFault, initFile, avars, xvars, fvars>>

\* client.Ping: a round trip on the connection. The daemon answers while its Start
\* is running; once its Start has returned the process may be gone, and the call
\* may fail.
PingOutcomes(q) ==
    IF q \in Procs /\ pc[q] = "returned" THEN {TRUE, FALSE} ELSE {TRUE}

\* A Start that returns err (nil after a good Ping) instead of ErrAlreadyRunning.
AfterPingReturnsErr(ok) ==
    [pc |-> "returned", ret |-> IF ok THEN "nil" ELSE "pingErr"]

\* A Start that treats a failed Ping as a stale endpoint and goes on to remove it.
AfterPingStale(ok) ==
    [pc |-> IF ok THEN "returned" ELSE "remove",
     ret |-> IF ok THEN ErrAlreadyRunning ELSE "none"]

\* lines 39-42: what Start does with Ping's result: either way it returns.
AfterPing(ok) ==
    [pc |-> "returned", ret |-> IF ok THEN ErrAlreadyRunning ELSE "pingErr"]

\* line 38: _, err = client.Ping(&PingInput{}).
Ping(p) ==
    /\ pc[p] = "ping"
    /\ \E ok \in PingOutcomes(conn[p]) :
         /\ pingRes' = [pingRes EXCEPT ![p] = IF ok THEN "ok" ELSE "err"]
         /\ pc' = [pc EXCEPT ![p] = AfterPing(ok).pc]
         /\ ret' = [ret EXCEPT ![p] = AfterPing(ok).ret]
    /\ UNCHANGED <<sockFile, cancelled, lst, srv, inflight, conn, firstBind,
                   dialRes, rmTried, rmVictim, binds, envFault, initFile, avars, xvars, fvars>>

\* A removal that leaves the socket file in place (the wrong path removed).
FileAfterRemoveKept(file) == file

\* os.Remove(sockPath) on an existing path: the path names nothing afterwards.
FileAfterRemove(file) == NoFile

\* lines 46-48: os.Remove(sockPath). It removes whatever the path names now; it
\* fails when the path is gone (ENOENT) or for another reason, and the error is
\* returned.
Remove(p) ==
    /\ pc[p] = "remove"
    /\ rmTried' = [rmTried EXCEPT ![p] = TRUE]
    /\ \E ok \in (IF sockFile = NoFile THEN {FALSE} ELSE {TRUE, FALSE}) :
         IF ok
         THEN /\ rmVictim' = [rmVictim EXCEPT ![p] = sockFile]
              /\ sockFile' = FileAfterRemove(sockFile)
              /\ pc' = [pc EXCEPT ![p] = "relisten"]
              /\ UNCHANGED <<ret, envFault>>
         ELSE /\ Return(p, "removeErr")
              /\ envFault' = [envFault EXCEPT ![p] = (sockFile # NoFile)]
              /\ UNCHANGED <<rmVictim, sockFile>>
    /\ UNCHANGED <<cancelled, lst, srv, inflight, conn, firstBind, dialRes,
                   pingRes, binds, initFile, avars, xvars, fvars>>

\* lines 49-53: the one retry of the bind; any error of it is returned.
Relisten(p) ==
    /\ pc[p] = "relisten"
    /\ binds' = [binds EXCEPT ![p] = @ + 1]
    /\ \E o \in ListenOutcomes(sockFile) :
         IF o = "ok"
         THEN /\ sockFile' = p
              /\ lst' = [lst EXCEPT ![p] = "open"]
              /\ pc' = [pc EXCEPT ![p] = "serve"]
              /\ UNCHANGED <<ret, envFault>>
         ELSE /\ Return(p, "bindErr")
              /\ envFault' = [envFault EXCEPT ![p] = (o = "other")]
              /\ UNCHANGED <<sockFile, lst>>
    /\ UNCHANGED <<cancelled, srv, inflight, conn, firstBind, dialRes, pingRes,
                   rmTried, rmVictim, initFile, avars, xvars, fvars>>

\* lines 54-60: set up the servers and start the goroutine that will call
\* httpSrv.Serve(listener); Start goes on to wait on ctx.Done().
GoServe(p) ==
    /\ pc[p] = "serve"
    /\ srv' = [srv EXCEPT ![p] = "pending"]
    /\ pc' = [pc EXCEPT ![p] = "wait"]
    /\ UNCHANGED <<sockFile, ret, cancelled, lst, inflight, conn, firstBind,
                   dialRes, pingRes, rmTried, rmVictim, binds, envFault, initFile, avars, xvars, fvars>>

\* Closing a listener made by net.Listen("unix", ...) unlinks its path.
FileAfterClose(file) == NoFile

\* line 59, in the goroutine: httpSrv.Serve(listener). Before Shutdown it starts
\* accepting; after Shutdown it returns ErrServerClosed and closes the listener.
Serve(p) ==
    /\ srv[p] = "pending"
    /\ IF pc[p] = "returned"
       THEN /\ srv' = [srv EXCEPT ![p] = "done"]
            /\ lst' = [lst EXCEPT ![p] = "closed"]
            /\ sockFile' = FileAfterClose(sockFile)
       ELSE /\ srv' = [srv EXCEPT ![p] = "accepting"]
            /\ UNCHANGED <<lst, sockFile>>
    /\ UNCHANGED <<pc, ret, cancelled, inflight, conn, firstBind, dialRes,
                   pingRes, rmTried, rmVictim, binds, envFault, initFile, avars, xvars, fvars>>

\* A client's request reaches daemon p through the socket path and its handler
\* starts (net/http runs one handler invocation per request).
RequestBegin(p) ==
    /\ srv[p] = "accepting"
    /\ sockFile = p
    /\ inflight[p] < MaxInflight
    /\ inflight' = [inflight EXCEPT ![p] = @ + 1]
    /\ UNCHANGED <<sockFile, pc, ret, cancelled, lst, srv, conn, firstBind, dialRes,
                   pingRes, rmTried, rmVictim, binds, envFault, initFile, avars, xvars, fvars>>

\* A handler invocation of daemon p completes.
RequestEnd(p) ==
    /\ inflight[p] > 0
    /\ inflight' = [inflight EXCEPT ![p] = @ - 1]
    /\ UNCHANGED <<sockFile, pc, ret, cancelled, lst, srv, conn, firstBind, dialRes,
                   pingRes, rmTried, rmVictim, binds, envFault, initFile, avars, xvars, fvars>>

\* The caller cancels the context it gave to Start. Start reads its context only
\* at line 61 (Dial ignores the one it is given), so a cancellation that comes
\* earlier is the same as one that comes when Start is waiting there.
Cancel(p) ==
    /\ pc[p] = "wait"
    /\ ~cancelled[p]
    /\ cancelled' = [cancelled EXCEPT ![p] = TRUE]
    /\ UNCHANGED <<sockFile, pc, ret, lst, srv, inflight, conn, firstBind, dialRes,
                   pingRes, rmTried, rmVictim, binds, envFault, initFile, avars, xvars, fvars>>

\* http.Server.Shutdown(ctx) waits for the active connections only until ctx is
\* done. Given how many requests are in flight and whether ctx is done, whether
\* it returns now.
ShutdownReturns(active, ctxDone) == active = 0 \/ ctxDone

\* lines 61-63: <-ctx.Done(); httpSrv.Shutdown(ctx); return nil. Shutdown closes
\* the listener the server tracks (which unlinks the socket path) and is given
\* the context that is already done.
Shutdown(p) ==
    /\ pc[p] = "wait"
    /\ cancelled[p]
    /\ ShutdownReturns(inflight[p], cancelled[p])
    /\ IF srv[p] = "accepting"
       THEN /\ srv' = [srv EXCEPT ![p] = "done"]
            /\ lst' = [lst EXCEPT ![p] = "closed"]
            /\ sockFile' = FileAfterClose(sockFile)
       ELSE UNCHANGED <<srv, lst, sockFile>>
    /\ Return(p, "nil")
    /\ UNCHANGED <<cancelled, inflight, conn, firstBind, dialRes, pingRes,
                   rmTried, rmVictim, binds, envFault, initFile, avars, xvars, fvars>>

\* ------------------------------------------------- strings (invoke.go)
\* A Go string is a sequence of one-character strings.

\* The argument tokens prepareArgs is tried on: plain, "@" first, raw with a
\* second "@", input, output, input-output under a directory, an output whose
\* name looks like a renamed one, and an unknown prefix.
Tokens ==
    { <<"a">>,
      <<"@", "a">>,
      <<"r", "a", "w", "@", "i", "@", "a">>,
      <<"i", "@", "a">>,
      <<"o", "@", "a">>,
      <<"i", "o", "@", "d", "/", "a">>,
      <<"o", "@", "2", "-", "a">>,
      <<"x", "@", "a">> }

\* The sequences over S of length at most n.
SeqsUpTo(S, n) == UNION {[1..k -> S] : k \in 0..n}

RECURSIVE IndexFrom(_, _, _)
\* The 0-based index of the first c in s at 1-based position i or later; -1: none.
IndexFrom(s, c, i) ==
    IF i > Len(s) THEN -1
    ELSE IF s[i] = c THEN i - 1 ELSE IndexFrom(s, c, i + 1)

\* strings.Index(s, c) for a one-character c.
Index(s, c) == IndexFrom(s, c, 1)

RECURSIVE LastIndexFrom(_, _, _)
LastIndexFrom(s, c, i) ==
    IF i < 1 THEN -1
    ELSE IF s[i] = c THEN i - 1 ELSE LastIndexFrom(s, c, i - 1)

\* strings.LastIndex(s, c) for a one-character c.
LastIndex(s, c) == LastIndexFrom(s, c, Len(s))

\* s[lo:hi] of Go (0-based, hi excluded).
Slice(s, lo, hi) == SubSeq(s, lo + 1, hi)

RECURSIVE TrimSlashes(_)
\* path.Base: strip the trailing slashes.
TrimSlashes(p) ==
    IF Len(p) > 0 /\ p[Len(p)] = "/" THEN TrimSlashes(Slice(p, 0, Len(p) - 1)) ELSE p

\* path.Base(p): the last element of the path.
Base(p) ==
    IF p = <<>> THEN <<".">>
    ELSE LET t == TrimSlashes(p)
             i == LastIndex(t, "/")
             u == IF i >= 0 THEN Slice(t, i + 1, Len(t)) ELSE t
         IN  IF u = <<>> THEN <<"/">> ELSE u

Digits == <<"0", "1", "2", "3", "4", "5", "6", "7", "8", "9">>

RECURSIVE Itoa(_)
\* %d of a non-negative integer.
Itoa(n) == IF n < 10 THEN <<Digits[n + 1]>> ELSE Itoa(n \div 10) \o <<Digits[(n % 10) + 1]>>

\* fmt.Sprintf("%d-%s", n, name)
Sprintf(n, name) == Itoa(n) \o <<"-">> \o name

\* --------------------------------------------------------------- parseArg

\* An OutputMap with no entry (a nil map reads as an empty one).
EmptyMap == [k \in {} |-> <<>>]

\* (*outputs)[name] = arg
MapPut(m, k, v) == [x \in DOMAIN m \cup {k} |-> IF x = k THEN v ELSE m[x]]

\* A slot of out that no parseArg result was stored in.
Null == [kind |-> "null"]

\* json.Marshal of a Go string: a JSON string.
Literal(str) == [kind |-> "string", str |-> str]

\* protocol.NewBlob(ctx, store, data) for the bytes of the file at `path`.
BlobOf(path) == [file |-> path]

\* json.Marshal of a protocol.Arg with the fields In and Out.
ArgWord(hasIn, in, hasOut, name) ==
    [kind |-> "arg", hasIn |-> hasIn, in |-> in, hasOut |-> hasOut, out |-> name]

\* A split at the last "@" instead of the first.
SplitIndexLast(arg) == LastIndex(arg, "@")

\* line 189: idx := strings.Index(arg, "@")
SplitIndex(arg) == Index(arg, "@")

\* lines 212-217: the output name of `rest`: its base name, renamed to
\* "<len(outputs)>-<name>" when the base name is already a key.
OutputName(m, rest) ==
    LET name == Base(rest)
    IN  IF name \in DOMAIN m THEN Sprintf(Cardinality(DOMAIN m), name) ELSE name

\* What a parseArg call returns and does: the error ("none": none), the encoded
\* word, the OutputMap afterwards, the files read and the blobs put in the store.
Result(err, word, m, reads, puts) ==
    [err |-> err, word |-> word, outputs |-> m, reads |-> reads, puts |-> puts]

\* lines 186-236: parseArg(ctx, outputs, arg); readOk and putOk are what
\* ioutil.ReadFile and protocol.NewBlob do when they are called.
parseArg(m, arg, readOk, putOk) ==
    LET idx == SplitIndex(arg) IN
    IF idx <= 0
    THEN Result("none", Literal(arg), m, <<>>, <<>>)
    ELSE
      LET pfx == Slice(arg, 0, idx)
          rest == Slice(arg, idx + 1, Len(arg))
          name == OutputName(m, rest)
      IN
      CASE pfx \in {<<"i">>, <<"i", "o">>} ->
             IF ~readOk THEN Result("read", Null, m, <<rest>>, <<>>)
             ELSE IF ~putOk THEN Result("store", Null, m, <<rest>>, <<>>)
             ELSE IF pfx = <<"i">>
             THEN Result("none", ArgWord(TRUE, BlobOf(rest), FALSE, <<>>), m,
                         <<rest>>, <<BlobOf(rest)>>)
             ELSE Result("none", ArgWord(TRUE, BlobOf(rest), TRUE, name),
                         MapPut(m, name, rest), <<rest>>, <<BlobOf(rest)>>)
        [] pfx = <<"o">> ->
             Result("none", ArgWord(FALSE, <<>>, TRUE, name), MapPut(m, name, rest),
                    <<>>, <<>>)
        [] pfx = <<"r", "a", "w">> ->
             Result("none", Literal(rest), m, <<>>, <<>>)
        [] OTHER ->
             Result("argspec", Null, m, <<>>, <<>>)

\* ------------------------------------------------------------- prepareArgs

\* The tokens taken from the last to the first.
NextTokenFromEnd(list, i) == list[Len(list) - i]

\* line 262: for i, arg := range args: the token of iteration i (0-based).
NextToken(list, i) == list[i + 1]

\* lines 262-267: one iteration of the loop: parseArg on the next token; its
\* word is stored in out[i]; an error ends prepareArgs, which then returns no
\* words and no OutputMap.
ParseStep ==
    /\ ipc = "args"
    /\ ai < Len(args)
    /\ \E readOk, putOk \in BOOLEAN :
         LET tok == NextToken(args, ai)
             r == parseArg(outputs, tok, readOk, putOk)
         IN  /\ calls' = Append(calls, [arg |-> tok, before |-> outputs, res |-> r])
             /\ IF r.err # "none"
                THEN /\ perr' = r.err
                     /\ ipc' = "argsFailed"
                     /\ out' = <<>>
                     /\ outputs' = EmptyMap
                     /\ UNCHANGED ai
                ELSE /\ out' = [out EXCEPT ![ai + 1] = r.word]
                     /\ outputs' = r.outputs
                     /\ ai' = ai + 1
                     /\ UNCHANGED <<perr, ipc>>
    /\ UNCHANGED args

\* line 269: return out, outputs, nil.
PrepareArgsReturn ==
    /\ ipc = "args"
    /\ ai = Len(args)
    /\ ipc' = "prepared"
    /\ UNCHANGED <<args, ai, out, outputs, calls, perr>>

\* lines 260-261: prepareArgs is entered with the token list `list`.
PrepareArgsEnter(list) ==
    /\ args = list
    /\ ai = 0
    /\ out = [i \in 1..Len(list) |-> Null]
    /\ outputs = EmptyMap
    /\ calls = <<>>
    /\ perr = "none"

\* No invocation is running.
ArgsIdle ==
    /\ ipc = "off"
    /\ PrepareArgsEnter(<<>>)

\* ------------------------------------------------- InvokeCommand.Execute

\* subcommands.ExitFailure, and the status log.Fatalf ends the process with.
ExitFailure == 1
FatalStatus == 1
\* Execute has not ended.
NoResult == -1

\* The tokens Execute is tried on: an input, an output, an unknown prefix.
CmdTokens == { <<"i", "@", "a">>, <<"o", "@", "a">>, <<"x", "@", "a">> }

\* The attachments of the -f flag: (source, destination) pairs.
FileEntries == { [source |-> <<"f">>, dest |-> <<"g">>] }

\* An output name that no argument registers.
Unexpected == <<"z">>

\* llama.Invoke has returned nothing: no response (has), no error (failed; errLogs:
\* the error is an *llama.ErrorReturn that carries logs).
NoResp ==
    [has |-> FALSE, exit |-> 0, logs |-> FALSE, outputs |-> {},
     stderr |-> FALSE, stdout |-> FALSE, failed |-> FALSE, errLogs |-> FALSE]

\* The responses the backend may give to a request whose OutputMap is m.
Responses(m) ==
    [has : {TRUE}, exit : 0..MaxExit, logs : BOOLEAN,
     outputs : SUBSET (DOMAIN m \cup {Unexpected}),
     stderr : BOOLEAN, stdout : BOOLEAN, failed : {FALSE}, errLogs : {FALSE}]

\* One visible effect of Execute.
Event(e, key) == [e |-> e, key |-> key]

\* return subcommands.ExitFailure after a failed preparation step.
Fail(step) ==
    /\ prepFailed' = step
    /\ result' = ExitFailure
    /\ ipc' = "done"

\* lines 114-125: with -stdin, read all of stdin and put it in the store.
ExecStdin ==
    /\ ipc = "stdin"
    /\ IF ~stdinFlag
       THEN /\ ipc' = "files"
            /\ UNCHANGED <<specStdin, events, prepFailed, result>>
       ELSE \E readOk, putOk \in BOOLEAN :
              IF readOk /\ putOk
              THEN /\ specStdin' = TRUE
                   /\ events' = Append(events, Event("stdin", <<>>))
                   /\ ipc' = "files"
                   /\ UNCHANGED <<prepFailed, result>>
              ELSE /\ Fail(IF readOk THEN "stdin-store" ELSE "stdin-read")
                   /\ UNCHANGED <<specStdin, events>>
    /\ UNCHANGED <<stdinFlag, logsFlag, files, specFiles, invoked, resp, pending,
                   written, args, ai, out, outputs, calls, perr>>

\* ------------------------------------------------------ fileList (-f)

\* The values of -f the flag is tried on: a source alone, source:dest, an
\* absolute destination, an absolute source alone, an absolute source with a
\* relative destination, a value that starts with ":", an empty destination.
FlagValues ==
    { <<"f">>,
      <<"f", ":", "g">>,
      <<"f", ":", "/", "g">>,
      <<"/", "f">>,
      <<"/", "f", ":", "g">>,
      <<":", "/", "g">>,
      <<"f", ":">> }

\* No error.
NoError == [has |-> FALSE, msg |-> "", hasPath |-> FALSE, path |-> <<>>]

\* fmt.Errorf(msg + " %q...", path): an error whose text quotes `path`.
ErrorAt(msg, path) == [has |-> TRUE, msg |-> msg, hasPath |-> TRUE, path |-> path]

\* An error made by the store, which is given bytes and no path.
StoreError == [has |-> TRUE, msg |-> "store", hasPath |-> FALSE, path |-> <<>>]

\* A path.IsAbs that takes every path for a relative one.
IsAbsNever(p) == FALSE

\* path.IsAbs(p): p starts with a slash.
IsAbs(p) == Len(p) > 0 /\ p[1] = "/"

\* line 41: idx := strings.IndexRune(v, ':')
ColonIndex(v) == Index(v, ":")

\* lines 40-55: fileList.Set(v) on the list f: the error it returns and the
\* list afterwards.
Set(f, v) ==
    LET idx == ColonIndex(v)
        source == IF idx > 0 THEN Slice(v, 0, idx) ELSE v
        dest == IF idx > 0 THEN Slice(v, idx + 1, Len(v)) ELSE v
    IN  IF IsAbs(dest)
        THEN [err |-> ErrorAt("-file: cannot expose file at absolute path", dest),
              files |-> f]
        ELSE [err |-> NoError,
              files |-> Append(f, [source |-> source, dest |-> dest])]

\* flag.FlagSet.Parse gives the next -f value to Set (line 105); an error of Set
\* ends the parsing, and the command is not executed.
FlagSet ==
    /\ ipc = "flags"
    /\ fi < Len(fvals)
    /\ LET r == Set(files, fvals[fi + 1]) IN
         /\ files' = r.files
         /\ setErr' = r.err
         /\ fi' = fi + 1
         /\ ipc' = IF r.err.has THEN "usage" ELSE "flags"
    /\ UNCHANGED <<fvals, prepRet, stdinFlag, logsFlag, specStdin, specFiles, invoked,
                   resp, pending, written, events, prepFailed, result,
                   args, ai, out, outputs, calls, perr>>

\* What makes the preparation of an entry fail: ioutil.ReadFile (line 65),
\* os.Stat (line 70) or protocol.NewBlob (line 75).
FailKinds == {"read", "stat", "store"}

\* lines 66-78: the error Prepare makes of a failure of `kind` on `source`.
PrepareError(kind, source) ==
    CASE kind = "read" -> ErrorAt("reading file", source)
      [] kind = "stat" -> ErrorAt("stat", source)
      [] OTHER -> StoreError

\* lines 57-87: fileList.Prepare: the entries are read, stat'ed and put in the
\* store in order; the first failure (of `kind`, at entry k; k = 0: none) ends
\* it with no map. A nil list returns no map and no error.
Prepare(list, k, kind) ==
    [err |-> k # 0,
     error |-> IF k # 0 THEN PrepareError(kind, list[k].source) ELSE NoError,
     hasMap |-> k = 0 /\ list # <<>>,
     reads |-> [i \in 1..(IF k = 0 THEN Len(list) ELSE k) |-> Event("file", list[i].source)],
     stats |-> [i \in 1..(IF k = 0 THEN Len(list)
                          ELSE IF kind = "read" THEN k - 1 ELSE k) |-> list[i].source],
     puts |-> [i \in 1..(IF k = 0 THEN Len(list) ELSE k - 1) |-> BlobOf(list[i].source)],
     files |-> IF k # 0 THEN EmptyMap
               ELSE [d \in {list[i].dest : i \in 1..Len(list)} |-> "file"]]

\* Prepare has not been called.
NotCalled ==
    [called |-> FALSE, list |-> <<>>, k |-> 0,
     ret |-> [err |-> FALSE, error |-> NoError, hasMap |-> FALSE, reads |-> <<>>,
              stats |-> <<>>, puts |-> <<>>, files |-> EmptyMap]]

\* c.files.Prepare(ctx, global.MustStore()) on the list the flags have built.
PrepareCall ==
    /\ ipc = "flags"
    /\ fi = Len(fvals)
    /\ \E k \in 0..Len(files), kind \in FailKinds :
         prepRet' = [called |-> TRUE, list |-> files, k |-> k, ret |-> Prepare(files, k, kind)]
    /\ ipc' = "filesDone"
    /\ UNCHANGED <<fvals, fi, setErr, files, stdinFlag, logsFlag, specStdin, specFiles,
                   invoked, resp, pending, written, events, prepFailed, result,
                   args, ai, out, outputs, calls, perr>>

\* No -f flag is being parsed.
FlagsIdle ==
    /\ fvals = <<>>
    /\ fi = 0
    /\ setErr = NoError
    /\ prepRet = NotCalled

\* lines 127-134: the attachments, when there are any.
ExecFiles ==
    /\ ipc = "files"
    /\ IF Len(files) = 0
       THEN /\ ipc' = "args"
            /\ UNCHANGED <<specFiles, events, prepFailed, result>>
       ELSE \E k \in 0..Len(files), kind \in FailKinds :
              LET r == Prepare(files, k, kind) IN
              /\ events' = events \o r.reads
              /\ IF r.err
                 THEN Fail("files") /\ UNCHANGED specFiles
                 ELSE /\ specFiles' = r.files
                      /\ ipc' = "args"
                      /\ UNCHANGED <<prepFailed, result>>
    /\ UNCHANGED <<stdinFlag, logsFlag, files, specStdin, invoked, resp, pending,
                   written, args, ai, out, outputs, calls, perr>>

\* An Execute that logs the error of prepareArgs and goes on to the remote call.
OnArgsErrorContinue == "prepared"

\* lines 140-143: where Execute goes when prepareArgs returned an error: it ends.
OnArgsError == "done"

\* lines 140-143: prepareArgs failed.
ExecArgsFailed ==
    /\ ipc = "argsFailed"
    /\ ipc' = OnArgsError
    /\ prepFailed' = "args"
    /\ result' = IF OnArgsError = "done" THEN ExitFailure ELSE result
    /\ UNCHANGED <<stdinFlag, logsFlag, files, specStdin, specFiles, invoked, resp,
                   pending, written, events, args, ai, out, outputs, calls, perr>>

\* An Execute that logs the error of llama.Invoke and goes on with the response.
OnInvokeErrorContinue == "logs"

\* lines 151-158: where Execute goes when llama.Invoke returned an error: into
\* log.Fatalf, which ends the process.
OnInvokeError == "fatal"

\* lines 145-158: llama.Invoke. An error, with or without captured logs, ends
\* the process in log.Fatalf, after the logs it carries were written to stderr;
\* otherwise the response is kept.
ExecInvoke ==
    /\ ipc = "prepared"
    /\ invoked' = invoked + 1
    /\ \/ \E withLogs \in BOOLEAN :
            /\ resp' = [NoResp EXCEPT !.failed = TRUE, !.errLogs = withLogs]
            /\ events' = IF withLogs THEN Append(events, Event("logs", <<>>)) ELSE events
            /\ ipc' = OnInvokeError
            /\ result' = IF OnInvokeError = "fatal" THEN FatalStatus ELSE result
       \/ \E r \in Responses(outputs) :
            /\ resp' = r
            /\ ipc' = "logs"
            /\ UNCHANGED <<events, result>>
    /\ UNCHANGED <<stdinFlag, logsFlag, files, specStdin, specFiles, pending,
                   written, prepFailed, args, ai, out, outputs, calls, perr>>

\* lines 160-164: the logs of the response go to stderr when it has any; then
\* fetchOutputs is entered with the outputs of the response.
ExecLogs ==
    /\ ipc = "logs"
    /\ events' = IF resp.logs THEN Append(events, Event("logs", <<>>)) ELSE events
    /\ pending' = resp.outputs
    /\ ipc' = "outputs"
    /\ UNCHANGED <<stdinFlag, logsFlag, files, specStdin, specFiles, invoked, resp,
                   written, prepFailed, result, args, ai, out, outputs, calls, perr>>

\* A fetchOutputs that returns at the first output it cannot write.
AfterOutputFailureAbort(rest) == {}

\* lines 244, 249 and 253: after an unexpected output or a failed fetch or write,
\* the loop goes on with the outputs that remain.
AfterOutputFailure(rest) == rest

\* lines 241-255: one iteration of fetchOutputs, on any output of the response
\* not handled yet (a Go map is ranged over in no fixed order).
FetchOutput ==
    /\ ipc = "outputs"
    /\ \E key \in pending :
         IF key \notin DOMAIN outputs
         THEN /\ events' = Append(events, Event("unexpected", key))
              /\ pending' = AfterOutputFailure(pending \ {key})
              /\ UNCHANGED written
         ELSE \E readOk, writeOk \in BOOLEAN :
                IF readOk /\ writeOk
                THEN /\ written' = written \cup {[path |-> outputs[key], name |-> key]}
                     /\ events' = Append(events, Event("write", key))
                     /\ pending' = pending \ {key}
                ELSE /\ events' = Append(events,
                           Event(IF readOk THEN "write-failed" ELSE "fetch-failed", key))
                     /\ pending' = AfterOutputFailure(pending \ {key})
                     /\ UNCHANGED written
    /\ UNCHANGED <<stdinFlag, logsFlag, files, specStdin, specFiles, invoked, resp,
                   prepFailed, result, ipc, args, ai, out, outputs, calls, perr>>

\* line 255: the range over the outputs is over.
FetchOutputsReturn ==
    /\ ipc = "outputs"
    /\ pending = {}
    /\ ipc' = "stderr"
    /\ UNCHANGED <<stdinFlag, logsFlag, files, specStdin, specFiles, invoked, resp,
                   pending, written, events, prepFailed, result,
                   args, ai, out, outputs, calls, perr>>

\* An Execute that returns when the blob of a stream cannot be read.
AfterStreamFailureReturns(readOk, next) == IF readOk THEN next ELSE "return"

\* lines 168-172 and 176-180: a failed read of a stream's blob is logged, and
\* Execute goes on as after a good one.
AfterStream(readOk, next) == next

\* lines 166-173 and 174-181: the blob of a standard stream, when the response
\* has one, is read from the store and written; a failed read is logged.
Stream(name, present, next) ==
    /\ IF present
       THEN \E readOk \in BOOLEAN :
              /\ events' = Append(events,
                     Event(IF readOk THEN name ELSE name \o "-failed", <<>>))
              /\ ipc' = AfterStream(readOk, next)
       ELSE /\ UNCHANGED events
            /\ ipc' = next
    /\ UNCHANGED <<stdinFlag, logsFlag, files, specStdin, specFiles, invoked, resp,
                   pending, written, prepFailed, result,
                   args, ai, out, outputs, calls, perr>>

\* lines 166-173
ExecStderr == ipc = "stderr" /\ Stream("stderr", resp.stderr, "stdout")

\* lines 174-181
ExecStdout == ipc = "stdout" /\ Stream("stdout", resp.stdout, "return")

\* An Execute that reports success whatever the remote command's status.
FinalStatusSuccess(exit) == 0

\* line 183: subcommands.ExitStatus(response.Response.ExitStatus)
FinalStatus(exit) == exit

\* line 183: return.
ExecReturn ==
    /\ ipc = "return"
    /\ result' = FinalStatus(resp.exit)
    /\ ipc' = "done"
    /\ UNCHANGED <<stdinFlag, logsFlag, files, specStdin, specFiles, invoked, resp,
                   pending, written, events, prepFailed,
                   args, ai, out, outputs, calls, perr>>

\* Execute is entered: nothing prepared, nothing sent, nothing received.
ExecuteEnter ==
    /\ specStdin = FALSE
    /\ specFiles = EmptyMap
    /\ invoked = 0
    /\ resp = NoResp
    /\ pending = {}
    /\ written = {}
    /\ events = <<>>
    /\ prepFailed = "none"
    /\ result = NoResult

\* No Execute call is running.
ExecIdle ==
    /\ stdinFlag = FALSE
    /\ logsFlag = FALSE
    /\ files = <<>>
    /\ ExecuteEnter

\* ------------------------------------------------ the daemon specification

Init ==
    /\ ArgsIdle
    /\ ExecIdle
    /\ FlagsIdle
    /\ sockFile \in {NoFile, Stale, Live}
    /\ initFile = sockFile
    /\ pc = [p \in Procs |-> "idle"]
    /\ ret = [p \in Procs |-> "none"]
    /\ cancelled = [p \in Procs |-> FALSE]
    /\ lst = [p \in Procs |-> "none"]
    /\ srv = [p \in Procs |-> "none"]
    /\ inflight = [p \in Procs |-> 0]
    /\ conn = [p \in Procs |-> NoFile]
    /\ firstBind = [p \in Procs |-> "none"]
    /\ dialRes = [p \in Procs |-> "none"]
    /\ pingRes = [p \in Procs |-> "none"]
    /\ rmTried = [p \in Procs |-> FALSE]
    /\ rmVictim = [p \in Procs |-> NoRemoval]
    /\ binds = [p \in Procs |-> 0]
    /\ envFault = [p \in Procs |-> FALSE]

Next ==
    \E p \in Procs :
        \/ MkdirAll(p)
        \/ Listen(p)
        \/ Dial(p)
        \/ Ping(p)
        \/ Remove(p)
        \/ Relisten(p)
        \/ GoServe(p)
        \/ Serve(p)
        \/ RequestBegin(p)
        \/ RequestEnd(p)
        \/ Cancel(p)
        \/ Shutdown(p)

Spec == Init /\ [][Next]_vars

\* ------------------------------------------------------- daemon properties

\* Process p's bootstrap is over: it is serving (waiting on its context) or has returned.
Settled(p) == pc[p] \in {"wait", "returned"}

\* The daemons that serve: the processes waiting at line 61, and the earlier daemon.
Serving == {p \in Procs : pc[p] = "wait"} \cup (IF sockFile = Live THEN {Live} ELSE {})

\* No context was cancelled and no I/O failure was injected.
QuietRun == \A p \in Procs : ~cancelled[p] /\ ~envFault[p]

\* C1: when the first bind fails as in-use and Dial and Ping both succeed, Start
\* returns ErrAlreadyRunning, and in that call it never removed the endpoint
\* file, never bound a listener and never started serving.
C1_AlreadyRunning ==
    \A p \in Procs :
        (firstBind[p] = "inuse" /\ dialRes[p] = "ok" /\ pingRes[p] = "ok")
        => /\ pc[p] = "returned"
           /\ ret[p] = ErrAlreadyRunning
           /\ ~rmTried[p]
           /\ rmVictim[p] = NoRemoval
           /\ binds[p] = 1
           /\ lst[p] = "none"
           /\ srv[p] = "none"

\* C1 witness: a Start found the endpoint in use, probed a live daemon and returned.
C1_Witness ==
    \E p \in Procs :
        firstBind[p] = "inuse" /\ dialRes[p] = "ok" /\ pingRes[p] = "ok"
        /\ ret[p] = ErrAlreadyRunning

Solo(p) == \A q \in Procs \ {p} : pc[q] = "idle"

\* C3: with a stale endpoint file, a single Start call (no other bootstrap, no
\* unrelated I/O failure) finds the first bind in use and Dial failing, removes
\* the stale file, binds a new listener on the same path on its one retry, and
\* serves; it returns no error.
C3_StaleRecovered ==
    \A p \in Procs :
        (initFile = Stale /\ Solo(p) /\ ~envFault[p])
        => /\ firstBind[p] \in {"none", "inuse"}
           /\ dialRes[p] \in {"none", "err"}
           /\ pingRes[p] = "none"
           /\ ret[p] \in {"none", "nil"}
           /\ pc[p] \in {"relisten", "serve", "wait", "returned"}
                => rmTried[p] /\ rmVictim[p] = Stale
           /\ pc[p] \in {"serve", "wait"}
                => binds[p] = 2 /\ sockFile = p /\ lst[p] = "open"
           /\ pc[p] = "returned" => cancelled[p] /\ binds[p] = 2

\* C3 witness: the single Start call serves on the path it took over from a stale file.
C3_Witness ==
    \E p \in Procs :
        /\ initFile = Stale /\ Solo(p) /\ ~envFault[p]
        /\ pc[p] = "wait" /\ srv[p] = "accepting"
        /\ rmVictim[p] = Stale /\ sockFile = p

\* C4 as claimed: whenever the first bind fails as in-use and the probe fails, at
\* Dial or at Ping, Start treats the endpoint as stale (it goes on to remove the
\* file and retry the bind) and never returns the probe's error.
C4_AsClaimed ==
    \A p \in Procs :
        (firstBind[p] = "inuse" /\ (dialRes[p] = "err" \/ pingRes[p] = "err")
         /\ pc[p] \in {"relisten", "serve", "wait", "returned"})
        => rmTried[p] /\ ret[p] \notin {"dialErr", "pingErr"}

\* C4 amended: when the first bind fails as in-use and Dial fails, Start tries to
\* remove the endpoint file and, if the removal succeeds, retries the bind
\* exactly once, and Dial's error is never returned; when Dial succeeds and Ping
\* fails, Start returns Ping's error without removing the file or binding again.
C4_DialStalePingReturned ==
    \A p \in Procs :
        /\ (firstBind[p] = "inuse" /\ dialRes[p] = "err" /\ pc[p] # "remove")
           => /\ rmTried[p]
              /\ ret[p] \notin {"dialErr", "pingErr"}
              /\ pingRes[p] = "none"
              /\ rmVictim[p] = NoRemoval => binds[p] = 1 /\ ret[p] = "removeErr"
              /\ (rmVictim[p] # NoRemoval /\ pc[p] # "relisten") => binds[p] = 2
              /\ pc[p] = "relisten" => binds[p] = 1
        /\ (firstBind[p] = "inuse" /\ pingRes[p] = "err")
           => /\ dialRes[p] = "ok"
              /\ pc[p] = "returned" /\ ret[p] = "pingErr"
              /\ ~rmTried[p] /\ rmVictim[p] = NoRemoval
              /\ binds[p] = 1

\* C4 witness: a Start whose Dial succeeded and whose Ping failed has returned
\* Ping's error, while another Start recovered, or tried to recover, a stale file.
C4_Witness ==
    \E p \in Procs :
        firstBind[p] = "inuse" /\ dialRes[p] = "ok" /\ pingRes[p] = "err"
        /\ ret[p] = "pingErr"

\* C5 as claimed: there is no state in which Start has returned from its
\* shutdown while a handler invocation of its server is still running.
C5_Drained ==
    \A p \in Procs : (pc[p] = "returned" /\ ret[p] = "nil") => inflight[p] = 0

\* Process p never had a listener and never served.
NeverServed(p) == lst[p] = "none" /\ srv[p] = "none" /\ pc[p] # "wait"

\* C15: a failure of os.MkdirAll, a first bind that fails for another reason
\* than address-in-use, and a failure of the one retry of the bind each make
\* Start return that error without serving; after a first bind that failed for
\* another reason than in-use, Start has not probed the endpoint and has not
\* removed the endpoint file; no Start binds more than twice.
C15_FatalBindErrors ==
    \A p \in Procs :
        /\ binds[p] <= 2
        /\ (envFault[p] /\ binds[p] = 0)
             => /\ pc[p] = "returned" /\ ret[p] = "mkdirErr"
                /\ NeverServed(p)
                /\ firstBind[p] = "none" /\ dialRes[p] = "none" /\ ~rmTried[p]
        /\ firstBind[p] = "other"
             => /\ pc[p] = "returned" /\ ret[p] = "bindErr"
                /\ NeverServed(p)
                /\ binds[p] = 1
                /\ dialRes[p] = "none" /\ pingRes[p] = "none" /\ conn[p] = NoFile
                /\ ~rmTried[p] /\ rmVictim[p] = NoRemoval
        /\ (binds[p] = 2 /\ lst[p] = "none")
             => /\ pc[p] = "returned" /\ ret[p] = "bindErr"
                /\ NeverServed(p)
                /\ rmTried[p]

\* C15 witness: on a stale endpoint, one Start returned the error of a first
\* bind that failed for another reason than in-use, and another Start returned
\* the error of its retry.
C15_Witness ==
    \E p, q \in Procs :
        /\ firstBind[p] = "other" /\ ret[p] = "bindErr" /\ initFile = Stale
        /\ binds[q] = 2 /\ lst[q] = "none" /\ ret[q] = "bindErr"

\* Process p found the endpoint in use and its Dial failed: it classified the
\* endpoint as stale.
FoundStale(p) == firstBind[p] = "inuse" /\ dialRes[p] = "err"

\* C18: the stale recovery is not atomic: when two Start calls on a stale
\* endpoint file have both found the first bind in use and both failed the
\* probe, nothing holds either back: each goes on to os.Remove (without a Ping,
\* and never told that a daemon is running), and each that removed a file retries
\* the bind.
C18_BothRecover ==
    \A p, q \in Procs :
        (p # q /\ initFile = Stale /\ FoundStale(p) /\ FoundStale(q))
        => \A r \in {p, q} :
             /\ pc[r] \in {"remove", "relisten", "serve", "wait", "returned"}
             /\ pc[r] # "remove" => rmTried[r]
             /\ pingRes[r] = "none"
             /\ ret[r] \notin {ErrAlreadyRunning, "pingErr"}
             /\ (rmVictim[r] # NoRemoval /\ pc[r] \notin {"remove", "relisten"})
                  => binds[r] = 2

\* C18 witness: on a stale endpoint file two Start calls both found the bind in
\* use, both failed the probe, both removed a file and both bound a listener on
\* their retry.
C18_Witness ==
    \E p, q \in Procs :
        /\ p # q /\ initFile = Stale
        /\ FoundStale(p) /\ FoundStale(q)
        /\ rmTried[p] /\ rmTried[q]
        /\ rmVictim[p] # NoRemoval /\ rmVictim[q] # NoRemoval
        /\ binds[p] = 2 /\ binds[q] = 2
        /\ lst[p] = "open" /\ lst[q] = "open"

\* C20 as claimed: in every interleaving of the Start calls, no call removes an
\* endpoint file that another process has bound and is listening on (the path
\* names a process only while that process's listener is open), at most one
\* daemon serves at any moment, and the path leads to a daemon that is accepting
\* for as long as its context is not cancelled.
C20_NoLiveRemoval ==
    /\ \A p \in Procs : rmVictim[p] \notin (Procs \cup {Live})
    /\ Cardinality(Serving) <= 1
    /\ \A p \in Procs :
         (pc[p] = "wait" /\ srv[p] = "accepting" /\ ~cancelled[p]) => sockFile = p


\* --------------------------------------------- prepareArgs on token lists

\* The daemon is not part of an invocation.
DaemonIdle ==
    /\ sockFile = NoFile
    /\ initFile = NoFile
    /\ pc = [p \in Procs |-> "idle"]
    /\ ret = [p \in Procs |-> "none"]
    /\ cancelled = [p \in Procs |-> FALSE]
    /\ lst = [p \in Procs |-> "none"]
    /\ srv = [p \in Procs |-> "none"]
    /\ inflight = [p \in Procs |-> 0]
    /\ conn = [p \in Procs |-> NoFile]
    /\ firstBind = [p \in Procs |-> "none"]
    /\ dialRes = [p \in Procs |-> "none"]
    /\ pingRes = [p \in Procs |-> "none"]
    /\ rmTried = [p \in Procs |-> FALSE]
    /\ rmVictim = [p \in Procs |-> NoRemoval]
    /\ binds = [p \in Procs |-> 0]
    /\ envFault = [p \in Procs |-> FALSE]

InitArgs ==
    /\ DaemonIdle
    /\ ExecIdle
    /\ FlagsIdle
    /\ ipc = "args"
    /\ \E list \in SeqsUpTo(Tokens, MaxArgs) : PrepareArgsEnter(list)

NextArgs ==
    \/ ParseStep /\ UNCHANGED <<dvars, xvars, fvars>>
    \/ PrepareArgsReturn /\ UNCHANGED <<dvars, xvars, fvars>>

SpecArgs == InitArgs /\ [][NextArgs]_vars

\* ---------------------------------------------------- argument properties

\* The OutputMap after the first n tokens of `list`, by the grammar, every read
\* and put succeeding.
RECURSIVE OutputsAfter(_, _)
OutputsAfter(list, n) ==
    IF n = 0 THEN EmptyMap
    ELSE parseArg(OutputsAfter(list, n - 1), list[n], TRUE, TRUE).outputs

\* The positions of the tokens that carry an output name.
OutSlots == {i \in 1..Len(out) : out[i].kind = "arg" /\ out[i].hasOut}

\* C8 as claimed: after prepareArgs has encoded the tokens, the output names
\* carried by the encoded o@ and io@ arguments are pairwise distinct and the
\* OutputMap holds one entry per such argument.
C8_NamesDistinct ==
    ipc = "prepared"
    => /\ \A i, j \in OutSlots : i # j => out[i].out # out[j].out
       /\ Cardinality(DOMAIN outputs) = Cardinality(OutSlots)

\* C9: when prepareArgs succeeds the encoded list is as long as the token list
\* and element i is the encoding of token i, made with the OutputMap that the
\* tokens before i, and only they, have registered into; while it runs, the
\* slots of the tokens not yet reached are unassigned.
C9_OrderKept ==
    (ipc \in {"args", "prepared"})
    => /\ Len(out) = Len(args)
       /\ Len(calls) = ai
       /\ ipc = "prepared" => ai = Len(args)
       /\ \A i \in 1..Len(args) :
            IF i <= ai
            THEN /\ calls[i].arg = args[i]
                 /\ calls[i].before = OutputsAfter(args, i - 1)
                 /\ out[i] = parseArg(OutputsAfter(args, i - 1), args[i], TRUE, TRUE).word
            ELSE out[i] = Null
       /\ outputs = OutputsAfter(args, ai)

\* C9 witness: prepareArgs succeeded on three tokens, the last two registering
\* outputs of the same base name.
C9_Witness ==
    /\ ipc = "prepared"
    /\ Len(args) = 3
    /\ args[1] # args[3]
    /\ out[2].kind = "arg" /\ out[3].kind = "arg"
    /\ out[2].hasOut /\ out[3].hasOut
    /\ calls[3].before # EmptyMap

\* Token t has an "@" somewhere.
HasAt(t) == \E k \in 1..Len(t) : t[k] = "@"

\* The 1-based position of the first "@" of t.
FirstAt(t) == CHOOSE k \in 1..Len(t) : t[k] = "@" /\ \A j \in 1..(k - 1) : t[j] # "@"

\* The parseArg call c read no file, put nothing in the store and left the
\* OutputMap as it was.
NoEffect(c) == c.res.reads = <<>> /\ c.res.puts = <<>> /\ c.res.outputs = c.before

\* The parseArg call c registered `rest` under the name its word carries, and
\* changed nothing else of the OutputMap but that entry.
Registered(c, rest) ==
    /\ c.res.word.hasOut
    /\ c.res.word.out \in DOMAIN c.res.outputs
    /\ c.res.outputs[c.res.word.out] = rest
    /\ \A k \in DOMAIN c.before \ {c.res.word.out} :
         k \in DOMAIN c.res.outputs /\ c.res.outputs[k] = c.before[k]

\* What the grammar says of one parseArg call.
ByGrammar(c) ==
    IF ~HasAt(c.arg) \/ FirstAt(c.arg) = 1
    THEN c.res.err = "none" /\ c.res.word = Literal(c.arg) /\ NoEffect(c)
    ELSE
      LET k == FirstAt(c.arg)
          prefix == SubSeq(c.arg, 1, k - 1)
          rest == SubSeq(c.arg, k + 1, Len(c.arg))
      IN
      CASE prefix = <<"r", "a", "w">> ->
             c.res.err = "none" /\ c.res.word = Literal(rest) /\ NoEffect(c)
        [] prefix = <<"i">> ->
             /\ c.res.err \in {"none", "read", "store"}
             /\ c.res.reads = <<rest>>
             /\ c.res.outputs = c.before
             /\ c.res.err = "none"
                  => /\ c.res.word.kind = "arg"
                     /\ c.res.word.hasIn /\ c.res.word.in = BlobOf(rest)
                     /\ ~c.res.word.hasOut
                     /\ c.res.puts = <<BlobOf(rest)>>
        [] prefix = <<"o">> ->
             /\ c.res.err = "none"
             /\ c.res.reads = <<>> /\ c.res.puts = <<>>
             /\ c.res.word.kind = "arg"
             /\ ~c.res.word.hasIn
             /\ Registered(c, rest)
        [] prefix = <<"i", "o">> ->
             /\ c.res.err \in {"none", "read", "store"}
             /\ c.res.reads = <<rest>>
             /\ c.res.err # "none" => c.res.outputs = c.before
             /\ c.res.err = "none"
                  => /\ c.res.word.kind = "arg"
                     /\ c.res.word.hasIn /\ c.res.word.in = BlobOf(rest)
                     /\ c.res.puts = <<BlobOf(rest)>>
                     /\ Registered(c, rest)
        [] OTHER ->
             c.res.err = "argspec" /\ NoEffect(c)

\* C10: parseArg classifies every token by its first "@" only: no "@", or "@"
\* first, is the literal whole token; otherwise the token is split at the first
\* "@": raw gives the literal rest verbatim with no file read, no store put and
\* no OutputMap change, i an input reference, o an output placeholder, io both,
\* and any other prefix the "unrecognized argspec" error.
C10_Grammar == \A n \in 1..Len(calls) : ByGrammar(calls[n])

\* C10 witness: a raw token whose rest holds a second "@" was encoded as the
\* literal rest, after an output was registered.
C10_Witness ==
    \E n \in 1..Len(calls) :
        /\ calls[n].arg = <<"r", "a", "w", "@", "i", "@", "a">>
        /\ calls[n].res.word = Literal(<<"i", "@", "a">>)
        /\ calls[n].before # EmptyMap


\* The PATH of an o@PATH or io@PATH token: what follows its first "@".
PathOf(t) == SubSeq(t, FirstAt(t) + 1, Len(t))

\* C19 as claimed: after prepareArgs has encoded the tokens, the OutputMap maps
\* the output name carried by each o@PATH or io@PATH argument to that argument's
\* own PATH, and no parseArg call changes an entry that was in the OutputMap
\* before it.
C19_OwnPath ==
    /\ ipc = "prepared"
         => \A i \in OutSlots :
              /\ out[i].out \in DOMAIN outputs
              /\ outputs[out[i].out] = PathOf(args[i])
    /\ \A n \in 1..Len(calls) :
         calls[n].res.err = "none"
         => \A k \in DOMAIN calls[n].before :
              k \in DOMAIN calls[n].res.outputs
              /\ calls[n].res.outputs[k] = calls[n].before[k]


\* ------------------------------------------------------- one Execute call

InitInvoke ==
    /\ DaemonIdle
    /\ FlagsIdle
    /\ ipc = "stdin"
    /\ stdinFlag \in BOOLEAN
    /\ logsFlag \in BOOLEAN
    /\ files \in SeqsUpTo(FileEntries, MaxFiles)
    /\ \E list \in SeqsUpTo(CmdTokens, MaxCmdArgs) : PrepareArgsEnter(list)
    /\ ExecuteEnter

NextInvoke ==
    \/ ExecStdin /\ UNCHANGED <<dvars, fvars>>
    \/ ExecFiles /\ UNCHANGED <<dvars, fvars>>
    \/ ParseStep /\ UNCHANGED <<dvars, xvars, fvars>>
    \/ PrepareArgsReturn /\ UNCHANGED <<dvars, xvars, fvars>>
    \/ ExecArgsFailed /\ UNCHANGED <<dvars, fvars>>
    \/ ExecInvoke /\ UNCHANGED <<dvars, fvars>>
    \/ ExecLogs /\ UNCHANGED <<dvars, fvars>>
    \/ FetchOutput /\ UNCHANGED <<dvars, fvars>>
    \/ FetchOutputsReturn /\ UNCHANGED <<dvars, fvars>>
    \/ ExecStderr /\ UNCHANGED <<dvars, fvars>>
    \/ ExecStdout /\ UNCHANGED <<dvars, fvars>>
    \/ ExecReturn /\ UNCHANGED <<dvars, fvars>>

SpecInvoke == InitInvoke /\ [][NextInvoke]_vars

\* ------------------------------------------------------ Execute properties

\* Some event of kind e was recorded.
Happened(e) == \E n \in 1..Len(events) : events[n].e = e

\* C6: whenever the remote call returned without error, Execute ends in no
\* other way than by returning, and what it returns is response.exit_status,
\* whatever went wrong while reconciling outputs, stderr or stdout.
C6_ExitStatus ==
    resp.has
    => /\ ipc # "fatal"
       /\ prepFailed = "none"
       /\ IF ipc = "done" THEN result = resp.exit ELSE result = NoResult

\* C6 witness: Execute returned the remote status 2 although an output was
\* unexpected, an output could not be fetched and stderr could not be read.
C6_Witness ==
    /\ ipc = "done" /\ resp.has
    /\ result = 2 /\ resp.exit = 2
    /\ Happened("unexpected")
    /\ Happened("fetch-failed") \/ Happened("write-failed")
    /\ Happened("stderr-failed")

\* A step of the preparation of the request failed.
PrepError == prepFailed # "none" \/ perr # "none"

\* C7: if reading or storing stdin, preparing an attachment or encoding an
\* argument fails, the backend is never invoked and Execute ends with ExitFailure.
C7_NoDispatch ==
    PrepError
    => /\ invoked = 0
       /\ ~resp.has
       /\ ipc \in {"argsFailed", "done"}
       /\ ipc = "done" => result = ExitFailure

\* C7 witness: Execute ended with ExitFailure on the second argument, after the
\* first one had been put in the store, and nothing was sent.
C7_Witness ==
    /\ ipc = "done" /\ prepFailed = "args" /\ result = ExitFailure
    /\ Len(calls) = 2
    /\ calls[1].res.puts # <<>>
    /\ invoked = 0

\* The kinds of event fetchOutputs records for an output of the response.
OutputEvents == {"unexpected", "write", "fetch-failed", "write-failed"}

\* The positions in events of what fetchOutputs did with the output `key`.
Handling(key) == {n \in 1..Len(events) : events[n].e \in OutputEvents /\ events[n].key = key}

\* The outputs of the response fetchOutputs has gone past.
Handled == IF ipc = "outputs" THEN resp.outputs \ pending ELSE resp.outputs

\* C12: fetchOutputs handles each output of the response once and on its own: a
\* name that is not in the OutputMap is logged and nothing is written for it, a
\* failed fetch or write is logged, and whatever happened to the others, an
\* output that is registered and whose fetch and write succeed is written to the
\* path the OutputMap gives it; the command goes on to the streams and is never
\* ended by fetchOutputs.
C12_Independent ==
    (resp.has /\ ipc \in {"outputs", "stderr", "stdout", "return", "done"})
    => /\ pending \subseteq resp.outputs
       /\ ipc # "outputs" => pending = {}
       /\ ipc # "done" => result = NoResult
       /\ \A key \in resp.outputs :
            IF key \in Handled
            THEN /\ Cardinality(Handling(key)) = 1
                 /\ \A n \in Handling(key) :
                      /\ key \notin DOMAIN outputs <=> events[n].e = "unexpected"
                      /\ events[n].e = "write"
                           <=> \E w \in written : w.name = key
            ELSE Handling(key) = {}
       /\ \A w \in written :
            w.name \in Handled \cap DOMAIN outputs /\ w.path = outputs[w.name]

\* C12 witness: an unexpected output was skipped and the fetch or write of a
\* registered output failed, and after both another registered output was
\* written to its path.
C12_Witness ==
    \E u, f, w \in 1..Len(events) :
        /\ u < w /\ f < w
        /\ events[u].e = "unexpected"
        /\ events[f].e \in {"fetch-failed", "write-failed"}
        /\ events[w].e = "write"
        /\ [path |-> outputs[events[w].key], name |-> events[w].key] \in written

\* The events recorded before the remote call.
PrepEvents == {"stdin", "file"}

\* C13: when llama.Invoke returns an error, Execute ends there with a failure
\* status: the backend was called once, no output was reconciled or written, no
\* stdout or stderr blob was written, and the logs the error carries, if any,
\* were written to stderr, once, as the last thing done.
C13_RemoteErrorFatal ==
    resp.failed
    => /\ ipc = "fatal"
       /\ result = FatalStatus /\ result # 0
       /\ invoked = 1
       /\ ~resp.has
       /\ pending = {} /\ written = {}
       /\ \A n \in 1..Len(events) : events[n].e \in PrepEvents \cup {"logs"}
       /\ IF resp.errLogs
          THEN /\ Len(events) > 0 /\ events[Len(events)].e = "logs"
               /\ \A n \in 1..(Len(events) - 1) : events[n].e \in PrepEvents
          ELSE \A n \in 1..Len(events) : events[n].e \in PrepEvents

\* C13 witness: the remote call, made with an argument in the store and an
\* output registered, returned an error that carried logs; they were shown and
\* the command ended.
C13_Witness ==
    /\ resp.failed /\ resp.errLogs
    /\ ipc = "fatal"
    /\ Happened("logs")
    /\ outputs # EmptyMap
    /\ \E n \in 1..Len(calls) : calls[n].res.puts # <<>>

\* C14 as claimed: after a successful remote call the logs are written to
\* stderr only if -logs was set and the response carries logs: with -logs not
\* set, no logs are written even when the response has some.
C14_LogsOnlyIfRequested ==
    (resp.has /\ Happened("logs")) => (logsFlag /\ resp.logs)

\* The steps from one phase of Execute to the next: stdin, attachments,
\* arguments (one step per token), the remote call, the logs, the outputs (one
\* step per output), stderr, stdout, the return; a failed preparation ends
\* Execute and a failed remote call ends the process.
PhaseOrder ==
    { <<"stdin", "files">>, <<"stdin", "done">>,
      <<"files", "args">>, <<"files", "done">>,
      <<"args", "args">>, <<"args", "argsFailed">>, <<"args", "prepared">>,
      <<"argsFailed", "done">>,
      <<"prepared", "logs">>, <<"prepared", "fatal">>,
      <<"logs", "outputs">>,
      <<"outputs", "outputs">>, <<"outputs", "stderr">>,
      <<"stderr", "stdout">>,
      <<"stdout", "return">>,
      <<"return", "done">> }

\* The kinds of event a phase may record.
PhaseEvents(phase) ==
    CASE phase = "stdin" -> {"stdin"}
      [] phase = "files" -> {"file"}
      [] phase \in {"prepared", "logs"} -> {"logs"}
      [] phase = "outputs" -> OutputEvents
      [] phase = "stderr" -> {"stderr", "stderr-failed"}
      [] phase = "stdout" -> {"stdout", "stdout-failed"}
      [] OTHER -> {}

\* One step of Execute keeps to the order of the phases.
PhaseStep ==
    /\ <<ipc, ipc'>> \in PhaseOrder
    /\ Len(events') >= Len(events)
    /\ SubSeq(events', 1, Len(events)) = events
    /\ \A n \in (Len(events) + 1)..Len(events') : events'[n].e \in PhaseEvents(ipc)
    /\ specStdin' # specStdin => ipc = "stdin"
    /\ specFiles' # specFiles => ipc = "files"
    /\ (calls' # calls \/ out' # out \/ outputs' # outputs \/ ai' # ai) => ipc = "args"
    /\ invoked' # invoked
         => /\ ipc = "prepared"
            /\ invoked = 0 /\ invoked' = 1
            /\ ai = Len(args) /\ Len(calls) = Len(args) /\ perr = "none"
    /\ resp' # resp => ipc = "prepared"
    /\ (written' # written \/ pending' # pending) => ipc \in {"logs", "outputs"}
    /\ written' # written => ipc = "outputs"
    /\ (ipc = "stderr" /\ resp.stderr) => Len(events') = Len(events) + 1
    /\ (ipc = "stdout" /\ resp.stdout) => Len(events') = Len(events) + 1

\* C16: Execute goes through its phases in one order and never back: stdin is
\* stored before the attachments are prepared, the attachments before the
\* arguments are encoded, every argument before the remote call, which is made
\* at most once; after the response the outputs are reconciled before stderr is
\* written and stderr before stdout, and the stdout phase follows the stderr
\* phase whether or not the stderr blob could be read.
C16_LinearOrder == [][PhaseStep]_vars

\* C16 witness: an Execute that went through every phase has returned: stdin,
\* an attachment, two arguments, the remote call, the logs, an output written,
\* a stderr blob that could not be read, and stdout written after it.
C16_Witness ==
    /\ ipc = "done" /\ resp.has
    /\ specStdin /\ specFiles # EmptyMap
    /\ Len(calls) = 2 /\ invoked = 1
    /\ \E a, b, c, d, e, f \in 1..Len(events) :
         /\ a < b /\ b < c /\ c < d /\ d < e /\ e < f
         /\ events[a].e = "stdin"
         /\ events[b].e = "file"
         /\ events[c].e = "logs"
         /\ events[d].e = "write"
         /\ events[e].e = "stderr-failed"
         /\ events[f].e = "stdout"

\* ------------------------------------------------------- the -f flag alone

InitFiles ==
    /\ DaemonIdle
    /\ ExecIdle
    /\ PrepareArgsEnter(<<>>)
    /\ ipc = "flags"
    /\ fvals \in SeqsUpTo(FlagValues, MaxFlags)
    /\ fi = 0
    /\ setErr = NoError
    /\ prepRet = NotCalled

NextFiles ==
    \/ FlagSet /\ UNCHANGED dvars
    \/ PrepareCall /\ UNCHANGED dvars

SpecFiles == InitFiles /\ [][NextFiles]_vars

\* ------------------------------------------------------ fileList properties

\* p is a relative path: it does not start at the root.
Relative(p) == p = <<>> \/ p[1] # "/"

\* The destination a -f value names: what follows its first ":" when that is
\* not the first character, the whole value otherwise.
DestOf(v) ==
    IF \E j \in 2..Len(v) : v[j] = ":"
    THEN LET j == CHOOSE j \in 2..Len(v) : v[j] = ":" /\ \A h \in 2..(j - 1) : v[h] # ":"
         IN  IF v[1] = ":" THEN v ELSE SubSeq(v, j + 1, Len(v))
    ELSE v

\* The -f values given to Set so far whose destination is relative, in order.
RECURSIVE Accepted(_, _)
Accepted(vals, n) ==
    IF n = 0 THEN <<>>
    ELSE IF Relative(DestOf(vals[n])) THEN Append(Accepted(vals, n - 1), vals[n])
    ELSE Accepted(vals, n - 1)

\* C11: every destination in the attachment list, and every key of the map
\* Prepare returns, is a relative path: Set returns an error for a value whose
\* destination (explicit, or defaulted from the source) is absolute and does not
\* append it, the list holds exactly the values given so far whose destination
\* is relative, and no file of a rejected value is read and nothing of it is
\* put in the store.
C11_RelativeDests ==
    /\ \A i \in 1..Len(files) : Relative(files[i].dest)
    /\ \A d \in DOMAIN prepRet.ret.files : Relative(d)
    /\ Len(files) = Len(Accepted(fvals, fi))
    /\ \A i \in 1..Len(files) : files[i].dest = DestOf(Accepted(fvals, fi)[i])
    /\ (fi > 0 /\ ~Relative(DestOf(fvals[fi])))
         => /\ setErr.has /\ setErr.path = DestOf(fvals[fi])
            /\ ipc = "usage"
            /\ ~prepRet.called
    /\ (fi > 0 /\ Relative(DestOf(fvals[fi]))) => ~setErr.has
    /\ prepRet.called
         => /\ \A i \in 1..Len(prepRet.ret.reads) :
                 \E j \in 1..Len(files) : prepRet.ret.reads[i].key = files[j].source
            /\ \A i \in 1..Len(prepRet.ret.puts) :
                 \E j \in 1..Len(files) : prepRet.ret.puts[i] = BlobOf(files[j].source)

\* C11 witness: a first value was accepted, a second one with the absolute
\* destination "/g" was rejected by Set, and the list holds the first only.
C11_Witness ==
    /\ fi = 2
    /\ fvals[2] = <<"f", ":", "/", "g">>
    /\ setErr.has /\ setErr.path = <<"/", "g">>
    /\ Len(files) = 1

\* What C17 says apart from the text of the error: a failure at entry k gives
\* an error and no map, with no entry after k read, stat'ed or put; no failure
\* gives no error and a map with a File for every destination.
AllOrNothing ==
    prepRet.called
    => IF prepRet.k # 0
       THEN /\ prepRet.ret.err /\ prepRet.ret.error.has
            /\ ~prepRet.ret.hasMap /\ prepRet.ret.files = EmptyMap
            /\ Len(prepRet.ret.reads) = prepRet.k
            /\ \A i \in 1..Len(prepRet.ret.reads) :
                 prepRet.ret.reads[i].key = prepRet.list[i].source
            /\ Len(prepRet.ret.stats) <= prepRet.k
            /\ Len(prepRet.ret.puts) < prepRet.k
       ELSE /\ ~prepRet.ret.err /\ ~prepRet.ret.error.has
            /\ prepRet.ret.hasMap <=> prepRet.list # <<>>
            /\ DOMAIN prepRet.ret.files
                 = {prepRet.list[i].dest : i \in 1..Len(prepRet.list)}

\* C17 as claimed: Prepare is all-or-nothing, and when the read, the stat or the
\* store put of an entry fails, the error it returns names the source of that
\* entry.
C17_ErrorNamesSource ==
    /\ AllOrNothing
    /\ (prepRet.called /\ prepRet.k # 0)
         => /\ prepRet.ret.error.hasPath
            /\ prepRet.ret.error.path = prepRet.list[prepRet.k].source

====
